---- MODULE Spec2Model ----
(***************************************************************************)
(* A model of the blog scrapers of src/scrapers and of src/run_all.py.     *)
(* One scraper process is a sequential program: main() picks initial or    *)
(* update mode, the run scans the categories of SEED_URLS, fetches the     *)
(* articles of each listing page and writes the JSON store at the end.     *)
(* The upstream site, the network and process kills are the environment.   *)
(***************************************************************************)
EXTENDS Integers, Sequences, FiniteSets, TLC

---------------------------------------------------------------------------
(* Program constants                                                       *)

MAX_RETRIES == 3
RETRY_BACKOFF_FACTOR == 2
RANDOM_DELAY_MIN == 1
RANDOM_DELAY_MAX == 3
MAX_PAGES_TO_SCRAPE == 5
UPDATE_CARDS == 5
UPDATE_CARDS_SELENIUM == 10

---------------------------------------------------------------------------
(* The resilient fetcher: _fetch_with_retries and its copies               *)
(* _fetch_article_details / _fetch_article_content.                        *)

\* What one session.get + raise_for_status can do: a 2xx response, one of the
\* requests.exceptions.RequestException family, or any other exception.
TransientFailures == {"timeout", "connection_error", "http_error"}
AttemptStatuses == {"ok", "other_exception"} \cup TransientFailures

\* except requests.exceptions.RequestException
\* A handler that catches timeouts only.
RequestExceptionTimeoutOnly(status) == status = "timeout"
RequestException(status) == status \in TransientFailures

RECURSIVE Power(_, _)
Power(b, e) == IF e = 0 THEN 1 ELSE b * Power(b, e - 1)

\* time.sleep(RETRY_BACKOFF_FACTOR ** attempt), attempt counted from 0
\* A backoff that does not grow with the attempt.
BackoffSecondsFlat(attempt) == RETRY_BACKOFF_FACTOR
BackoffSeconds(attempt) == Power(RETRY_BACKOFF_FACTOR, attempt)

\* if attempt + 1 == MAX_RETRIES: return None
LastAttempt(attempt) == attempt + 1 = MAX_RETRIES

DelayEvent(secs) == [op |-> "delay", secs |-> secs, status |-> "-"]
GetEvent(status) == [op |-> "get", secs |-> 0, status |-> status]
BackoffEvent(secs) == [op |-> "backoff", secs |-> secs, status |-> "-"]

\* The retry loop from attempt `attempt` on. statuses[i] is what the i-th request
\* of this fetch meets, delays[i] the random.uniform politeness delay before it.
\* The result is what the caller gets ("response", "none" for None, "raised" for
\* a propagated exception) and the timeline of sleeps and requests.
RECURSIVE FetchLoop(_, _, _, _)
FetchLoop(attempt, statuses, delays, timeline) ==
    IF attempt >= MAX_RETRIES
    THEN [response |-> "none", timeline |-> timeline]
    ELSE LET status == statuses[attempt + 1]
             tl == timeline \o <<DelayEvent(delays[attempt + 1]), GetEvent(status)>>
         IN  IF status = "ok"
             THEN [response |-> "response", timeline |-> tl]
             ELSE IF RequestException(status)
             THEN IF LastAttempt(attempt)
                  THEN [response |-> "none", timeline |-> tl]
                  ELSE FetchLoop(attempt + 1, statuses, delays,
                                 Append(tl, BackoffEvent(BackoffSeconds(attempt))))
             ELSE [response |-> "raised", timeline |-> tl]

fetch_with_retries(statuses, delays) == FetchLoop(0, statuses, delays, <<>>)

---------------------------------------------------------------------------
(* Bounds of the model                                                     *)

\* Article links the upstream shows on short listing pages: 1..NLinks.
NLinks == 2
\* Longest short listing page.
MaxEntries == 2
\* Runs of one scraper followed in one behaviour.
MaxRuns == 2
\* Listing pages per category the deepest modelled site has.
MaxSitePages == 6

---------------------------------------------------------------------------
(* Source configuration: what differs between the seven scrapers           *)

Sources == {"ahrefs", "backlinko", "carlos_sanchez", "developer_google",
            "el_placer_del_seo", "moz", "search_engine_land"}

\* SEED_URLS: the categories in dict order (two stand for each source's table).
SEED_URLS == <<"cat1", "cat2">>

\* Sources whose listing pages are loaded with the Selenium driver.
UsesDriver(src) == src \in {"carlos_sanchez", "developer_google", "el_placer_del_seo"}

\* while current_url and page_count <= MAX_PAGES_TO_SCRAPE (moz, search engine
\* land); while current_url (ahrefs, backlinko).
HasPageCap(src) == src \in {"moz", "search_engine_land"}

\* How run_initial_scrape skips a link it already met in this run.
InitialDedup(src) ==
    IF src \in {"ahrefs", "moz", "search_engine_land", "developer_google"}
    THEN "processed_links"
    ELSE IF src = "backlinko" THEN "all_articles" ELSE "none"

\* if not full_content: continue
DropsEmptyContent(src) == UsesDriver(src)

\* A slice of ten cards whatever the source.
UpdatePrefixTen(src) == UPDATE_CARDS_SELENIUM

\* for card in article_cards[:5] / article_cards[:10]
UpdatePrefix(src) ==
    IF src \in {"carlos_sanchez", "el_placer_del_seo"}
    THEN UPDATE_CARDS_SELENIUM ELSE UPDATE_CARDS

---------------------------------------------------------------------------
(* Records, listing pages and files                                        *)

Links == 1..NLinks
\* Further links, for listing pages longer than an update run inspects.
FreshLinks == (NLinks + 1)..(NLinks + UPDATE_CARDS_SELENIUM + 2)
AllLinks == Links \cup FreshLinks

Min(a, b) == IF a < b THEN a ELSE b

\* article_data / new_article_data: the fields the control flow reads.
\* full_content is "" when the content container is missing, "html" otherwise.
ArticleData(category, link, content) ==
    [category |-> category, link |-> link, full_content |-> content]

RECURSIVE SeqsUpTo(_, _)
SeqsUpTo(S, n) ==
    IF n = 0 THEN {<<>>}
    ELSE LET shorter == SeqsUpTo(S, n - 1)
         IN  shorter \cup {Append(s, x) : s \in {t \in shorter : Len(t) = n - 1}, x \in S}

\* The listing pages a free upstream may serve: the links of the cards, in
\* markup order, duplicates included.
Pages == SeqsUpTo(Links, MaxEntries)

\* article_cards[:n]
Prefix(s, n) == SubSeq(s, 1, Min(Len(s), n))

\* A known set that forgets every link.
LinksOfNone(articles) == {}
\* {article['link'] for article in existing_data['articles']}
LinksOf(articles) == {articles[i].link : i \in 1..Len(articles)}

\* json.dump(data, f, ensure_ascii=False, indent=4): one serialized object per
\* article, keys in insertion order.
json_dump(articles) ==
    [i \in 1..Len(articles) |->
        <<articles[i].category, articles[i].link, articles[i].full_content>>]

\* json.load(f)
json_load(text) ==
    [i \in 1..Len(text) |-> ArticleData(text[i][1], text[i][2], text[i][3])]

\* A file is absent, holds a complete JSON document, or was opened for writing
\* and not completely written (truncated or cut short: not loadable).
Absent == [kind |-> "absent", text |-> <<>>]
Partial == [kind |-> "partial", text |-> <<>>]
Complete(text) == [kind |-> "complete", text |-> text]

\* os.path.exists(JSON_FILE_PATH)
Exists(file) == file.kind # "absent"

---------------------------------------------------------------------------
(* State                                                                   *)

VARIABLES
    \* configuration and environment
    source,             \* which scraper this process is
    depth,              \* listing pages each category of the upstream has
    listing,            \* first listing page of each category, newest first
    older,              \* the page its next link leads to, and the next, ...
    content,            \* what the content container of each article holds
    disk_faulty,        \* TRUE: copying a file can fail
    \* the two files of the source
    store,              \* JSON_FILE_PATH
    backup,             \* JSON_BACKUP_PATH
    \* position of the process
    pc, mode, cat, current_url, page_count, cards, has_next, pos,
    \* memory of the process
    all_articles, processed_links, existing_data, existing_urls,
    new_articles_found, final_data,
    \* history kept for the properties
    runs,               \* runs started so far
    store0, backup0,    \* the files when the current run started
    outcome,            \* how the last run ended
    abort_at,           \* pc at which the last run was killed or raised
    lost,               \* records in memory when it was killed or raised
    fetched,            \* article fetches of the current run, in order
    pages_fetched,      \* listing pages fetched for the current category
    known0,             \* existing_urls when the current category scan began
    found0,             \* Len(new_articles_found) at that moment
    clean,              \* the current run met no failure so far
    prev,               \* mode, outcome, clean and batch size of the run before
    store_writes,       \* open(JSON_FILE_PATH, 'w') calls of the current run
    backup_writes,      \* copyfile calls of the current run that wrote
    \* one call of the fetcher on its own
    fetch_in, fetch_out,
    \* one call of _scrape_category_page of a driver source on its own
    tpc,                \* position in the loop
    button,             \* what the driver finds of the load-more control
    page_len,           \* batches of cards the page holds
    clicked_any,        \* a control was activated in this poll cycle
    last_height,        \* document.body.scrollHeight before the scroll
    new_height,         \* and after the settle delay
    \* one call of a helper of the scraper on its own
    call, ret,
    \* run_all.py, and two processes of one source over the same files
    launch, procs

env == <<source, depth, listing, older, content, disk_faulty>>
files == <<store, backup>>
control == <<pc, mode, cat, current_url, page_count, cards, has_next, pos>>
memory == <<all_articles, processed_links, existing_data, existing_urls,
            new_articles_found, final_data>>
history == <<runs, store0, backup0, outcome, abort_at, lost, fetched, pages_fetched,
             known0, found0, clean, prev, store_writes, backup_writes>>
fetcher == <<fetch_in, fetch_out>>
traversal == <<tpc, button, page_len, clicked_any, last_height, new_height>>
units == <<call, ret>>
agents == <<launch, procs>>
vars == <<env, files, control, memory, history, fetcher, traversal, units, agents>>

NCategories == Len(SEED_URLS)

\* What a caller of the fetcher can get back when every failure is transient.
FetchResponses ==
    {fetch_with_retries(st, [i \in 1..MAX_RETRIES |-> RANDOM_DELAY_MIN]).response :
        st \in [1..MAX_RETRIES -> {"ok", "timeout"}]}

\* What a container can hold: "" when the page has none, else cleaned HTML.
Contents == {"", "html"}

\* Fetching one article page and selecting its content container: "none" when
\* the fetch failed, the container's content otherwise.
ArticleResults(link) ==
    {IF r = "none" THEN "none" ELSE content[link] : r \in FetchResponses}

\* if not article_response: continue / if not full_content: continue
Kept(src, result) ==
    /\ result # "none"
    /\ result # "" \/ ~DropsEmptyContent(src)

\* An upstream that serves the first page whatever page is asked for.
ServedFirst(c, n) == listing[c]

\* The page the upstream serves as page `n` of category index `c`.
Served(c, n) == IF n = 1 THEN listing[c] ELSE older[c]

\* An upstream where the articles of `E` have no content container.
ContentWithout(E) == [l \in AllLinks |-> IF l \in E THEN "" ELSE "html"]

NoRun == [mode |-> "none", outcome |-> "none", clean |-> TRUE, found |-> 0]

FetchIdle ==
    /\ fetch_in = [statuses |-> <<>>, delays |-> <<>>]
    /\ fetch_out = [response |-> "pending", timeline |-> <<>>]

TraversalIdle ==
    /\ tpc = "idle" /\ button = "unseen" /\ page_len = 0 /\ clicked_any = FALSE
    /\ last_height = 0 /\ new_height = 0

Pending == [done |-> FALSE, value |-> <<>>]

Returned(value) == [done |-> TRUE, value |-> value]

UnitsIdle == call = [fn |-> "none"] /\ ret = Pending

AgentsIdle ==
    /\ launch = [state |-> "idle", next |-> 0, child |-> "none", log |-> <<>>]
    /\ procs = <<>>

ProcessIdle ==
    /\ pc = "idle" /\ mode = "none" /\ cat = 0 /\ current_url = "none"
    /\ page_count = 0 /\ cards = <<>> /\ has_next = FALSE /\ pos = 0
    /\ all_articles = <<>> /\ processed_links = {} /\ existing_data = <<>>
    /\ existing_urls = {} /\ new_articles_found = <<>> /\ final_data = <<>>
    /\ runs = 0 /\ store0 = Absent /\ backup0 = Absent /\ outcome = "none"
    /\ abort_at = "none" /\ lost = 0 /\ fetched = <<>> /\ pages_fetched = 0
    /\ known0 = {} /\ found0 = 0 /\ clean = TRUE /\ prev = NoRun
    /\ store_writes = 0 /\ backup_writes = 0

\* Nothing persisted yet, a free upstream.
Init ==
    /\ source \in Sources
    /\ depth = 1
    /\ listing \in [1..NCategories -> Pages]
    /\ older = listing
    /\ content \in {ContentWithout({}), ContentWithout({1})}
    /\ disk_faulty = FALSE
    /\ store = Absent /\ backup = Absent
    /\ ProcessIdle
    /\ AgentsIdle
    /\ FetchIdle
    /\ TraversalIdle /\ UnitsIdle

---------------------------------------------------------------------------
(* main() and the store                                                    *)

\* The process ends: in-memory results are gone unless the run completed.
EndRun(result) ==
    /\ pc' = "idle"
    /\ outcome' = result
    /\ abort_at' = IF result = "completed" THEN "none" ELSE pc
    /\ lost' = IF result = "completed" THEN 0
               ELSE Len(all_articles) + Len(new_articles_found)
    /\ cat' = 0 /\ current_url' = "none" /\ page_count' = 0 /\ cards' = <<>>
    /\ has_next' = FALSE /\ pos' = 0
    /\ processed_links' = {} /\ existing_urls' = {} /\ final_data' = <<>>
    /\ IF result = "completed"
       THEN UNCHANGED <<all_articles, new_articles_found, existing_data>>
       ELSE all_articles' = <<>> /\ new_articles_found' = <<>> /\ existing_data' = <<>>
    /\ UNCHANGED <<mode, runs, store0, backup0, fetched, pages_fetched, known0, found0,
                   clean, prev, store_writes, backup_writes>>

\* scraper = Scraper(); if not os.path.exists(JSON_FILE_PATH): initial else update
Main ==
    /\ pc = "idle"
    /\ runs < MaxRuns
    /\ runs' = runs + 1
    /\ prev' = [mode |-> mode, outcome |-> outcome, clean |-> clean,
                 found |-> Len(new_articles_found)]
    /\ store0' = store /\ backup0' = backup
    /\ outcome' = "running" /\ abort_at' = "none" /\ lost' = 0
    /\ fetched' = <<>> /\ pages_fetched' = 0 /\ known0' = {} /\ found0' = 0
    /\ clean' = TRUE /\ store_writes' = 0 /\ backup_writes' = 0
    /\ all_articles' = <<>> /\ processed_links' = {} /\ existing_data' = <<>>
    /\ existing_urls' = {} /\ new_articles_found' = <<>> /\ final_data' = <<>>
    /\ IF Exists(store)
       THEN mode' = "update" /\ pc' = "backup" /\ cat' = 0
       ELSE mode' = "initial" /\ pc' = "category" /\ cat' = 1
    /\ UNCHANGED <<env, files, current_url, page_count, cards, has_next, pos, fetcher, traversal, units, agents>>

CopyOutcomes ==
    IF disk_faulty THEN {"copied", "failed_before_write", "failed_while_writing"}
    ELSE {"copied"}

\* _backup_database: copyfile, its exception logged and swallowed. A failed
\* copy leaves the backup as it was or cut short.
\* A run that goes on to load the store without copying it.
BackupDatabaseSkipping ==
    /\ pc = "backup"
    /\ pc' = "load"
    /\ UNCHANGED <<env, files, mode, cat, current_url, page_count, cards, has_next, pos,
                   memory, history, fetcher, traversal, units, agents>>

\* A run that a failed copy ends.
BackupDatabaseFatal ==
    /\ pc = "backup"
    /\ \E result \in CopyOutcomes :
        IF result = "copied"
        THEN /\ backup' = store
             /\ backup_writes' = backup_writes + 1
             /\ pc' = "load"
             /\ UNCHANGED <<mode, cat, current_url, page_count, cards, has_next, pos,
                            memory, runs, store0, backup0, outcome, abort_at, lost,
                            fetched, pages_fetched, known0, found0, clean, prev,
                            store_writes>>
        ELSE /\ EndRun("aborted")
             /\ UNCHANGED backup
    /\ UNCHANGED <<env, store, fetcher, traversal, units, agents>>

BackupDatabase ==
    /\ pc = "backup"
    /\ \E result \in CopyOutcomes :
        /\ backup' = CASE result = "copied" -> store
                       [] result = "failed_before_write" -> backup
                       [] OTHER -> Partial
        /\ backup_writes' = IF result = "failed_before_write"
                            THEN backup_writes ELSE backup_writes + 1
    /\ pc' = "load"
    /\ UNCHANGED <<env, store, mode, cat, current_url, page_count, cards, has_next, pos,
                   memory, runs, store0, backup0, outcome, abort_at, lost, fetched,
                   pages_fetched, known0, found0, clean, prev, store_writes,
                   fetcher, traversal, units, agents>>

\* _load_existing_data and existing_urls; json.load raises on a file that is
\* not a complete document, and main() logs the exception and ends.
LoadExistingData ==
    /\ pc = "load"
    /\ IF store.kind = "complete"
       THEN /\ existing_data' = json_load(store.text)
            /\ existing_urls' = LinksOf(json_load(store.text))
            /\ pc' = "category" /\ cat' = 1
            /\ UNCHANGED <<mode, current_url, page_count, cards, has_next, pos,
                           all_articles, processed_links, new_articles_found, final_data,
                           history>>
       ELSE EndRun("aborted")
    /\ UNCHANGED <<env, files, fetcher, traversal, units, agents>>

\* _save_data, first half: open(JSON_FILE_PATH, 'w') truncates the file.
SaveOpen ==
    /\ pc = "save_open"
    /\ store' = Partial
    /\ store_writes' = store_writes + 1
    /\ pc' = "save_dump"
    /\ UNCHANGED <<env, backup, mode, cat, current_url, page_count, cards, has_next, pos,
                   memory, runs, store0, backup0, outcome, abort_at, lost, fetched,
                   pages_fetched, known0, found0, clean, prev, backup_writes,
                   fetcher, traversal, units, agents>>

\* _save_data, second half: json.dump writes the document and the file closes.
SaveDump ==
    /\ pc = "save_dump"
    /\ store' = Complete(json_dump(final_data))
    /\ EndRun("completed")
    /\ UNCHANGED <<env, backup, fetcher, traversal, units, agents>>

\* The process is killed at any point of a run.
Kill ==
    /\ pc # "idle"
    /\ EndRun("killed")
    /\ UNCHANGED <<env, files, fetcher, traversal, units, agents>>

---------------------------------------------------------------------------
(* run_update_scrape                                                       *)

\* for category_name, url in SEED_URLS.items(): load the first listing page;
\* a failed load or an empty page moves on to the next category.
UpdateCategory ==
    /\ pc = "category" /\ mode = "update" /\ cat <= NCategories
    /\ \E response \in FetchResponses :
        IF response = "none"
        THEN /\ cat' = cat + 1
             /\ clean' = FALSE
             /\ UNCHANGED <<pc, cards, pos, pages_fetched, known0, found0>>
        ELSE LET page == Served(cat, 1) IN
               IF page = <<>>
               THEN /\ cat' = cat + 1
                    /\ UNCHANGED <<pc, cards, pos, pages_fetched, known0, found0, clean>>
               ELSE /\ cards' = page /\ pos' = 1 /\ pc' = "cards"
                    /\ pages_fetched' = 1
                    /\ known0' = existing_urls
                    /\ found0' = Len(new_articles_found)
                    /\ UNCHANGED <<cat, clean>>
    /\ UNCHANGED <<env, files, mode, current_url, page_count, has_next, memory,
                   runs, store0, backup0, outcome, abort_at, lost, fetched,
                   prev, store_writes, backup_writes, fetcher, traversal, units, agents>>

\* A scan that steps over a known link instead of stopping at it.
UpdateCardSkipping ==
    /\ pc = "cards" /\ mode = "update"
    /\ pos <= Len(Prefix(cards, UpdatePrefix(source)))
    /\ LET link == cards[pos] IN
       IF link \notin existing_urls
       THEN \E result \in ArticleResults(link) :
              /\ fetched' = Append(fetched, [cat |-> cat, page |-> pages_fetched,
                                             pos |-> pos, link |-> link,
                                             result |-> result])
              /\ IF Kept(source, result)
                 THEN /\ new_articles_found' =
                            Append(new_articles_found,
                                   ArticleData(SEED_URLS[cat], link, result))
                      /\ existing_urls' = existing_urls \cup {link}
                 ELSE UNCHANGED <<new_articles_found, existing_urls>>
              /\ clean' = (clean /\ result # "none")
       ELSE UNCHANGED <<fetched, new_articles_found, existing_urls, clean>>
    /\ pos' = pos + 1
    /\ UNCHANGED <<env, files, pc, mode, cat, current_url, page_count, cards, has_next,
                   all_articles, processed_links, existing_data, final_data,
                   runs, store0, backup0, outcome, abort_at, lost, pages_fetched,
                   known0, found0, prev, store_writes, backup_writes, fetcher, traversal, units, agents>>

\* A scan that does not add the links it collects to existing_urls.
UpdateCardForgetting ==
    /\ pc = "cards" /\ mode = "update"
    /\ pos <= Len(Prefix(cards, UpdatePrefix(source)))
    /\ LET link == cards[pos] IN
       IF link \notin existing_urls
       THEN \E result \in ArticleResults(link) :
              /\ fetched' = Append(fetched, [cat |-> cat, page |-> pages_fetched,
                                             pos |-> pos, link |-> link,
                                             result |-> result])
              /\ IF Kept(source, result)
                 THEN /\ new_articles_found' =
                            Append(new_articles_found,
                                   ArticleData(SEED_URLS[cat], link, result))
                      /\ UNCHANGED existing_urls
                 ELSE UNCHANGED <<new_articles_found, existing_urls>>
              /\ clean' = (clean /\ result # "none")
              /\ pos' = pos + 1
              /\ UNCHANGED pc
       ELSE /\ pc' = "scanned"
            /\ UNCHANGED <<pos, fetched, new_articles_found, existing_urls, clean>>
    /\ UNCHANGED <<env, files, mode, cat, current_url, page_count, cards, has_next,
                   all_articles, processed_links, existing_data, final_data,
                   runs, store0, backup0, outcome, abort_at, lost, pages_fetched,
                   known0, found0, prev, store_writes, backup_writes, fetcher, traversal, units, agents>>

\* for card in article_cards[:5]: a link not in existing_urls is fetched and,
\* when the fetch gives a record, collected; a known link ends the scan.
UpdateCard ==
    /\ pc = "cards" /\ mode = "update"
    /\ pos <= Len(Prefix(cards, UpdatePrefix(source)))
    /\ LET link == cards[pos] IN
       IF link \notin existing_urls
       THEN \E result \in ArticleResults(link) :
              /\ fetched' = Append(fetched, [cat |-> cat, page |-> pages_fetched,
                                             pos |-> pos, link |-> link,
                                             result |-> result])
              /\ IF Kept(source, result)
                 THEN /\ new_articles_found' =
                            Append(new_articles_found,
                                   ArticleData(SEED_URLS[cat], link, result))
                      /\ existing_urls' = existing_urls \cup {link}
                 ELSE UNCHANGED <<new_articles_found, existing_urls>>
              /\ clean' = (clean /\ result # "none")
              /\ pos' = pos + 1
              /\ UNCHANGED pc
       ELSE /\ pc' = "scanned"
            /\ UNCHANGED <<pos, fetched, new_articles_found, existing_urls, clean>>
    /\ UNCHANGED <<env, files, mode, cat, current_url, page_count, cards, has_next,
                   all_articles, processed_links, existing_data, final_data,
                   runs, store0, backup0, outcome, abort_at, lost, pages_fetched,
                   known0, found0, prev, store_writes, backup_writes, fetcher, traversal, units, agents>>

\* The slice is exhausted without meeting a known link.
UpdateCardsEnd ==
    /\ pc = "cards" /\ mode = "update"
    /\ pos > Len(Prefix(cards, UpdatePrefix(source)))
    /\ pc' = "scanned"
    /\ UNCHANGED <<env, files, mode, cat, current_url, page_count, cards, has_next, pos,
                   memory, history, fetcher, traversal, units, agents>>

\* A merge that puts the batch after the existing collection.
UpdateMergeAppending ==
    /\ pc = "category" /\ mode = "update" /\ cat > NCategories
    /\ IF new_articles_found # <<>>
       THEN /\ final_data' = existing_data \o new_articles_found
            /\ pc' = "save_open"
            /\ UNCHANGED <<mode, cat, current_url, page_count, cards, has_next, pos,
                           all_articles, processed_links, existing_data, existing_urls,
                           new_articles_found, history>>
       ELSE EndRun("completed")
    /\ UNCHANGED <<env, files, fetcher, traversal, units, agents>>

\* if new_articles_found: final_data = new_articles_found + existing_data;
\* _save_data(final_data). Otherwise the run is over.
UpdateMerge ==
    /\ pc = "category" /\ mode = "update" /\ cat > NCategories
    /\ IF new_articles_found # <<>>
       THEN /\ final_data' = new_articles_found \o existing_data
            /\ pc' = "save_open"
            /\ UNCHANGED <<mode, cat, current_url, page_count, cards, has_next, pos,
                           all_articles, processed_links, existing_data, existing_urls,
                           new_articles_found, history>>
       ELSE EndRun("completed")
    /\ UNCHANGED <<env, files, fetcher, traversal, units, agents>>

\* A loop that writes what it holds to the store after each category.
NextCategoryFlushing ==
    /\ pc = "scanned"
    /\ cat' = cat + 1 /\ pc' = "category"
    /\ cards' = <<>> /\ pos' = 0 /\ has_next' = FALSE
    /\ current_url' = "none" /\ page_count' = 0
    /\ pages_fetched' = 0 /\ known0' = {} /\ found0' = 0
    /\ store' = Complete(json_dump(all_articles \o new_articles_found \o existing_data))
    /\ store_writes' = store_writes + 1
    /\ UNCHANGED <<env, backup, mode, memory, runs, store0, backup0, outcome, abort_at,
                   lost, fetched, clean, prev, backup_writes, fetcher, traversal, units, agents>>

\* The scan of one category is over: on to the next one.
NextCategory ==
    /\ pc = "scanned"
    /\ cat' = cat + 1 /\ pc' = "category"
    /\ cards' = <<>> /\ pos' = 0 /\ has_next' = FALSE
    /\ current_url' = "none" /\ page_count' = 0
    /\ pages_fetched' = 0 /\ known0' = {} /\ found0' = 0
    /\ UNCHANGED <<env, files, mode, memory, runs, store0, backup0, outcome, abort_at,
                   lost, fetched, clean, prev, store_writes, backup_writes,
                   fetcher, traversal, units, agents>>

---------------------------------------------------------------------------
(* run_initial_scrape                                                      *)

\* for category_name, start_url in SEED_URLS.items(): a linked source starts
\* at the seed URL; a driver source expands the page (_scrape_category_page,
\* called outside any try: a driver exception ends the run).
InitialCategory ==
    /\ pc = "category" /\ mode = "initial" /\ cat <= NCategories
    /\ IF UsesDriver(source)
       THEN \E loaded \in BOOLEAN :
              IF loaded
              THEN /\ cards' = Served(cat, 1)
                   /\ pos' = 1 /\ pc' = "cards" /\ pages_fetched' = 1
                   /\ UNCHANGED <<mode, cat, current_url, page_count, has_next, memory,
                                  runs, store0, backup0, outcome, abort_at, lost,
                                  fetched, known0, found0, clean, prev,
                                  store_writes, backup_writes>>
              ELSE EndRun("aborted")
       ELSE /\ current_url' = "start" /\ page_count' = 1 /\ pc' = "page"
            /\ pages_fetched' = 0
            /\ UNCHANGED <<mode, cat, cards, has_next, pos, memory,
                           runs, store0, backup0, outcome, abort_at, lost,
                           fetched, known0, found0, clean, prev,
                           store_writes, backup_writes>>
    /\ UNCHANGED <<env, files, fetcher, traversal, units, agents>>

\* while current_url [and page_count <= MAX_PAGES_TO_SCRAPE]: fetch the
\* listing page (a failed fetch breaks); the page has a next link exactly
\* when the category has a further page.
InitialPage ==
    /\ pc = "page" /\ mode = "initial"
    /\ IF current_url = "none"
          \/ (HasPageCap(source) /\ page_count > MAX_PAGES_TO_SCRAPE)
       THEN /\ pc' = "scanned"
            /\ UNCHANGED <<cards, has_next, pos, pages_fetched, clean>>
       ELSE /\ pages_fetched < MaxSitePages
            /\ \E response \in FetchResponses :
                 IF response = "none"
                 THEN /\ pc' = "scanned" /\ clean' = FALSE
                      /\ UNCHANGED <<cards, has_next, pos, pages_fetched>>
                 ELSE /\ cards' = Served(cat, pages_fetched + 1)
                      /\ has_next' = (pages_fetched + 1 < depth)
                      /\ pages_fetched' = pages_fetched + 1
                      /\ pos' = 1 /\ pc' = "cards"
                      /\ UNCHANGED clean
    /\ UNCHANGED <<env, files, mode, cat, current_url, page_count, memory,
                   runs, store0, backup0, outcome, abort_at, lost, fetched,
                   known0, found0, prev, store_writes, backup_writes, fetcher, traversal, units, agents>>

\* A card whose link was handled before is skipped, by the source's own test:
\* processed_links, the links of all_articles, or no test at all.
AlreadyProcessed(src, link) ==
    CASE InitialDedup(src) = "processed_links" -> link \in processed_links
      [] InitialDedup(src) = "all_articles" -> link \in LinksOf(all_articles)
      [] OTHER -> FALSE

\* for card in article_cards: skip, or fetch the article and append a record.
InitialCard ==
    /\ pc = "cards" /\ mode = "initial" /\ pos <= Len(cards)
    /\ LET link == cards[pos] IN
       IF AlreadyProcessed(source, link)
       THEN UNCHANGED <<all_articles, processed_links, fetched, clean>>
       ELSE \E result \in ArticleResults(link) :
              /\ fetched' = Append(fetched, [cat |-> cat, page |-> pages_fetched,
                                             pos |-> pos, link |-> link,
                                             result |-> result])
              /\ processed_links' = IF InitialDedup(source) = "processed_links"
                                    THEN processed_links \cup {link}
                                    ELSE processed_links
              /\ IF Kept(source, result)
                 THEN all_articles' = Append(all_articles,
                                             ArticleData(SEED_URLS[cat], link, result))
                 ELSE UNCHANGED all_articles
              /\ clean' = (clean /\ result # "none")
    /\ pos' = pos + 1
    /\ UNCHANGED <<env, files, pc, mode, cat, current_url, page_count, cards, has_next,
                   existing_data, existing_urls, new_articles_found, final_data,
                   runs, store0, backup0, outcome, abort_at, lost, pages_fetched,
                   known0, found0, prev, store_writes, backup_writes, fetcher, traversal, units, agents>>

\* The cards of the page are done: a linked source follows the next link
\* (page_count += 1 where the source counts pages), a driver source is done.
InitialCardsEnd ==
    /\ pc = "cards" /\ mode = "initial" /\ pos > Len(cards)
    /\ IF UsesDriver(source)
       THEN /\ pc' = "scanned"
            /\ UNCHANGED <<current_url, page_count>>
       ELSE /\ pc' = "page"
            /\ current_url' = IF has_next THEN "next" ELSE "none"
            /\ page_count' = IF HasPageCap(source) THEN page_count + 1 ELSE page_count
    /\ UNCHANGED <<env, files, mode, cat, cards, has_next, pos, memory, history, fetcher, traversal, units, agents>>

\* self._save_data(all_articles)
InitialFinish ==
    /\ pc = "category" /\ mode = "initial" /\ cat > NCategories
    /\ final_data' = all_articles
    /\ pc' = "save_open"
    /\ UNCHANGED <<env, files, mode, cat, current_url, page_count, cards, has_next, pos,
                   all_articles, processed_links, existing_data, existing_urls,
                   new_articles_found, history, fetcher, traversal, units, agents>>

Run ==
    \/ Main \/ BackupDatabase \/ LoadExistingData
    \/ UpdateCategory \/ UpdateCard \/ UpdateCardsEnd \/ UpdateMerge
    \/ InitialCategory \/ InitialPage \/ InitialCard \/ InitialCardsEnd \/ InitialFinish
    \/ NextCategory \/ SaveOpen \/ SaveDump \/ Kill

Next == Run

Spec == Init /\ [][Next]_vars

---------------------------------------------------------------------------
(* Update runs over a store that earlier runs left                         *)

\* What earlier runs left in the store: one record, or two.
StoredLists ==
    {<<ArticleData(SEED_URLS[1], 1, "html")>>,
     <<ArticleData(SEED_URLS[1], 2, "html"), ArticleData(SEED_URLS[2], 1, "html")>>}

\* Listing pages over the stored links and one link published since.
UpdatePages == SeqsUpTo(1..(NLinks + 1), MaxEntries)

\* A page of n + 1 links published since, followed by a stored link.
LongPage(n) == [i \in 1..(n + 2) |-> IF i <= n + 1 THEN NLinks + i ELSE 1]

\* Both categories published since the last run, above a stored article.
BusyListing ==
    [c \in 1..NCategories |->
        IF c = 1 THEN <<NLinks + 1, NLinks + 2, 2>> ELSE <<NLinks + 3, 1>>]

InitUpdate ==
    /\ source \in Sources
    /\ depth = 1
    /\ \/ /\ listing \in [1..NCategories -> UpdatePages]
          /\ content \in {ContentWithout({}), ContentWithout({NLinks + 1})}
          /\ \E existing \in StoredLists : store = Complete(json_dump(existing))
       \/ /\ listing = [c \in 1..NCategories |->
                           IF c = 1 THEN LongPage(UpdatePrefix(source)) ELSE <<>>]
          /\ content = ContentWithout({})
          /\ store = Complete(json_dump(<<ArticleData(SEED_URLS[1], 1, "html")>>))
       \/ /\ listing = BusyListing
          /\ content = ContentWithout({})
          /\ store = Complete(json_dump(
                <<ArticleData(SEED_URLS[1], 2, "html"), ArticleData(SEED_URLS[2], 1, "html")>>))
    /\ older = listing
    /\ disk_faulty = FALSE
    /\ backup = Absent
    /\ ProcessIdle
    /\ AgentsIdle
    /\ FetchIdle
    /\ TraversalIdle /\ UnitsIdle

NextUpdate ==
    \/ Main \/ BackupDatabase \/ LoadExistingData
    \/ UpdateCategory \/ UpdateCard \/ UpdateCardsEnd \/ UpdateMerge
    \/ NextCategory \/ SaveOpen \/ SaveDump

SpecUpdate == InitUpdate /\ [][NextUpdate]_vars

---------------------------------------------------------------------------
(* Initial runs of the linked-page sources over sites of every depth       *)

LinkedSources == {src \in Sources : ~UsesDriver(src)}

\* Pages of at most one card.
ShortPages == SeqsUpTo(Links, 1)

\* A site whose first category has two pages: two articles, then a third.
TwoPageListing == [c \in 1..NCategories |-> IF c = 1 THEN <<1, 2>> ELSE <<>>]

TwoPageOlder == [c \in 1..NCategories |-> IF c = 1 THEN <<NLinks + 1>> ELSE <<>>]

\* A category has `depth` pages; the next link of the last of them that the
\* model follows is absent, every other page links on. `older = listing` is
\* a site whose next link leads back to the same cards; otherwise the older
\* pages of every category show one and the same page.
InitPages ==
    /\ source \in LinkedSources
    /\ \/ /\ depth \in 1..MaxSitePages
          /\ listing \in [1..NCategories -> ShortPages]
          /\ older \in {listing}
                       \cup {[c \in 1..NCategories |-> page] : page \in ShortPages}
       \/ /\ depth = 2
          /\ listing = TwoPageListing
          /\ older = TwoPageOlder
    /\ content = ContentWithout({})
    /\ disk_faulty = FALSE
    /\ store = Absent /\ backup = Absent
    /\ ProcessIdle
    /\ AgentsIdle
    /\ FetchIdle
    /\ TraversalIdle /\ UnitsIdle

NextPages ==
    \/ Main
    \/ InitialCategory \/ InitialPage \/ InitialCard \/ InitialCardsEnd \/ InitialFinish
    \/ NextCategory \/ SaveOpen \/ SaveDump

SpecPages == InitPages /\ [][NextPages]_vars

---------------------------------------------------------------------------
(* One call of the fetcher, for every outcome of its attempts              *)

InitFetch ==
    /\ source \in Sources
    /\ depth = 1
    /\ listing = [c \in 1..NCategories |-> <<>>]
    /\ older = listing
    /\ content = ContentWithout({})
    /\ disk_faulty = FALSE
    /\ store = Absent /\ backup = Absent
    /\ ProcessIdle
    /\ AgentsIdle
    /\ fetch_in \in [statuses : [1..MAX_RETRIES -> AttemptStatuses],
                      delays : [1..MAX_RETRIES -> RANDOM_DELAY_MIN..RANDOM_DELAY_MAX]]
    /\ fetch_out = [response |-> "pending", timeline |-> <<>>]
    /\ TraversalIdle /\ UnitsIdle

Fetch ==
    /\ fetch_out.response = "pending"
    /\ fetch_out' = fetch_with_retries(fetch_in.statuses, fetch_in.delays)
    /\ UNCHANGED <<env, files, control, memory, history, fetch_in, traversal, units, agents>>

NextFetch == Fetch

SpecFetch == InitFetch /\ [][NextFetch]_vars

\* The requests of a timeline, and the seconds slept between two of them.
GetIndexes(timeline) == {i \in 1..Len(timeline) : timeline[i].op = "get"}
Requests(timeline) == Cardinality(GetIndexes(timeline))
NthGet(timeline, n) ==
    CHOOSE i \in GetIndexes(timeline) :
        Cardinality({j \in GetIndexes(timeline) : j <= i}) = n
RECURSIVE SleptIn(_, _, _)
SleptIn(timeline, from, to) ==
    IF from > to THEN 0
    ELSE timeline[from].secs + SleptIn(timeline, from + 1, to)
SleptBetween(timeline, n) ==
    SleptIn(timeline, NthGet(timeline, n) + 1, NthGet(timeline, n + 1) - 1)
Backoffs(timeline) ==
    LET idx == {i \in 1..Len(timeline) : timeline[i].op = "backoff"}
        RECURSIVE Collect(_)
        Collect(i) == IF i > Len(timeline) THEN <<>>
                      ELSE IF i \in idx THEN <<timeline[i].secs>> \o Collect(i + 1)
                      ELSE Collect(i + 1)
    IN  Collect(1)
FetchDone == fetch_out.response # "pending"
AllTransient == \A i \in 1..MAX_RETRIES : fetch_in.statuses[i] \in TransientFailures

---------------------------------------------------------------------------
(* C8: backoff of the fetcher                                              *)

\* C8 as the spec states it: when every attempt fails transiently, 3 requests
\* are issued, less time is slept between attempts 1 and 2 than between
\* attempts 2 and 3, and the fetch reports failure.
C8_AsStated ==
    (FetchDone /\ AllTransient) =>
        /\ Requests(fetch_out.timeline) = 3
        /\ SleptBetween(fetch_out.timeline, 1) < SleptBetween(fetch_out.timeline, 2)
        /\ fetch_out.response = "none"

\* C8, amended: when every attempt fails transiently, MAX_RETRIES = 3 requests
\* are issued and the fetch reports failure; the backoff sleeps between them
\* are RETRY_BACKOFF_FACTOR ** attempt, 1 s then 2 s, strictly increasing,
\* and no backoff follows the last request. The time slept between two
\* requests is that backoff plus the random delay of 1 to 3 s that precedes
\* the next request, and so need not increase.
C8_Backoff ==
    (FetchDone /\ AllTransient) =>
        LET tl == fetch_out.timeline IN
        /\ Requests(tl) = MAX_RETRIES
        /\ fetch_out.response = "none"
        /\ Backoffs(tl) = <<1, 2>>
        /\ \A n \in 1..(Len(Backoffs(tl)) - 1) : Backoffs(tl)[n] < Backoffs(tl)[n + 1]
        /\ tl[Len(tl)].op = "get"
        /\ \A n \in 1..(MAX_RETRIES - 1) :
              SleptBetween(tl, n) = Backoffs(tl)[n] + fetch_in.delays[n + 1]

\* Three transient failures where the second wait is the shorter one.
C8_Witness ==
    /\ FetchDone /\ AllTransient
    /\ fetch_out.response = "none"
    /\ SleptBetween(fetch_out.timeline, 1) > SleptBetween(fetch_out.timeline, 2)

---------------------------------------------------------------------------
(* C9: outcomes of the fetcher                                             *)

\* The first attempt that is not a transient failure, MAX_RETRIES + 1 if none.
FirstDecisive ==
    LET decisive == {i \in 1..MAX_RETRIES : fetch_in.statuses[i] \notin TransientFailures}
    IN  IF decisive = {} THEN MAX_RETRIES + 1
        ELSE CHOOSE i \in decisive : \A j \in decisive : i <= j

\* C9: a fetch reports failure only after MAX_RETRIES failed attempts; it
\* returns the response of the first successful attempt with no further
\* request or backoff sleep; it issues between 1 and MAX_RETRIES requests
\* whatever the outcomes; and it raises to its caller only on an exception
\* that is not a timeout, a connection error or a non-2xx status.
C9_FetchOutcomes ==
    FetchDone =>
        LET tl == fetch_out.timeline
            n == Requests(tl)
        IN
        /\ n >= 1 /\ n <= MAX_RETRIES
        /\ fetch_out.response = "none" =>
              /\ n = MAX_RETRIES
              /\ \A i \in GetIndexes(tl) : tl[i].status \in TransientFailures
        /\ (FirstDecisive <= MAX_RETRIES /\ fetch_in.statuses[FirstDecisive] = "ok") =>
              /\ fetch_out.response = "response"
              /\ n = FirstDecisive
              /\ tl[Len(tl)] = GetEvent("ok")
              /\ Len(Backoffs(tl)) = n - 1
        /\ fetch_out.response = "raised" =>
              tl[Len(tl)] = GetEvent("other_exception")
        /\ FirstDecisive > MAX_RETRIES => fetch_out.response = "none"

\* A fetch that succeeds at its second attempt, after a non-2xx status.
C9_Witness ==
    /\ FetchDone
    /\ fetch_in.statuses[1] = "http_error" /\ fetch_in.statuses[2] = "ok"
    /\ fetch_out.response = "response"
    /\ Requests(fetch_out.timeline) = 2

---------------------------------------------------------------------------
(* C1: links of a persisted collection                                     *)

StoredArticles == IF store.kind = "complete" THEN json_load(store.text) ELSE <<>>

\* C1 as the spec states it: after any sequence of runs of any source, no
\* two records of the persisted collection have the same link.
C1_LinksUnique ==
    \A i, j \in 1..Len(StoredArticles) :
        i # j => StoredArticles[i].link # StoredArticles[j].link

---------------------------------------------------------------------------
(* C4: an update run that finds nothing                                    *)

RunCompleted == pc = "idle" /\ outcome = "completed"

\* C4 as the spec states it: an update run that finds no new record writes
\* neither the store nor the backup, and leaves both files as they were.
C4_NoNewNoWrites ==
    (RunCompleted /\ mode = "update" /\ new_articles_found = <<>>) =>
        /\ store = store0 /\ store_writes = 0
        /\ backup = backup0 /\ backup_writes = 0

---------------------------------------------------------------------------
(* C6: one write per run, after the scan                                   *)

ScanPcs == {"backup", "load", "category", "page", "cards", "scanned"}
SavePcs == {"save_open", "save_dump"}

\* C6: a run opens the store for writing at most once, and only when every
\* category has been scanned; while it scans the store is as it was when the
\* run started, and a run killed or ended by an exception during the scan
\* leaves it so (absent for an initial run), whatever it held in memory.
C6_SingleWrite ==
    /\ store_writes <= 1
    /\ pc \in ScanPcs => (store = store0 /\ store_writes = 0)
    /\ pc \in SavePcs => cat = NCategories + 1
    /\ (pc = "idle" /\ outcome \in {"killed", "aborted"} /\ abort_at \in ScanPcs) =>
          /\ store = store0 /\ store_writes = 0
          /\ mode = "initial" => store = Absent

\* An update run killed between two article fetches with a record in memory.
C6_Witness ==
    /\ pc = "idle" /\ outcome = "killed" /\ abort_at = "cards"
    /\ mode = "update" /\ lost > 0
    /\ store = store0 /\ store.kind = "complete"

---------------------------------------------------------------------------
(* C7: what a reader of the store can see                                  *)

\* C7 as the spec states it: at every point, a save in progress or cut short
\* included, the store holds a complete collection, the previous one or the
\* new one (or is absent before the first save), never a partial document.
C7_SaveAtomic == store.kind # "partial"

---------------------------------------------------------------------------
(* C2: early stop of the update scan                                       *)

\* The collection the store held when the run started.
PreRun == IF store0.kind = "complete" THEN json_load(store0.text) ELSE <<>>

\* How many leading entries of a page are not in a set of links.
Leading(page, known) ==
    Cardinality({i \in 1..Len(page) : \A j \in 1..i : page[j] \notin known})

\* The article fetches and the records of the category being scanned.
CategoryFetches == SelectSeq(fetched, LAMBDA f : f.cat = cat)
Collected == SubSeq(new_articles_found, found0 + 1, Len(new_articles_found))
LinkSeq(records) == [i \in 1..Len(records) |-> records[i].link]
Yielding(fetches) == SelectSeq(fetches, LAMBDA f : Kept(source, f.result))
ScanOver == pc = "scanned" /\ mode = "update"

---------------------------------------------------------------------------
(* C3: two update runs in succession                                       *)

AfterUpdateRun == prev.mode = "update" /\ prev.outcome = "completed"

\* C3 as the spec states it: an update run that follows an update run, the
\* upstream unchanged, leaves the store as the first one left it.
C3_AsStated ==
    (RunCompleted /\ mode = "update" /\ AfterUpdateRun) => store = store0

\* C3, amended: an update run that follows an update run in which no fetch
\* failed (every category page loaded, no article fetch exhausted its
\* retries), the upstream unchanged, collects nothing, does not write the
\* store, and leaves it as the first run left it.
C3_Idempotent ==
    (RunCompleted /\ mode = "update" /\ AfterUpdateRun /\ prev.clean) =>
        /\ new_articles_found = <<>>
        /\ store_writes = 0
        /\ store = store0

\* A second update run after a first one that collected records.
C3_Witness ==
    /\ RunCompleted /\ mode = "update" /\ AfterUpdateRun /\ prev.clean
    /\ prev.found > 0
    /\ store = store0

---------------------------------------------------------------------------
(* C5: order of the merged collection                                      *)

---------------------------------------------------------------------------
(* C10: listing pages fetched per category                                 *)

\* C10 as the spec states it: whatever the site, a linked-page source
\* fetches at most maxPages listing pages of a category in an initial run.
C10_PagesCapped ==
    (mode = "initial" /\ ~UsesDriver(source)) => pages_fetched <= MAX_PAGES_TO_SCRAPE


---------------------------------------------------------------------------
(* _scrape_category_page of the driver sources, one call on its own        *)

MaxButtons == 2
MaxBatches == 2
MaxHeight == 3

DriverSources == {src \in Sources : UsesDriver(src)}

\* How the source grows its category page: carlos_sanchez clicks one control,
\* developer_google clicks every active control, el_placer_del_seo scrolls.
Traversal(src) ==
    CASE src = "carlos_sanchez" -> "click_one"
      [] src = "developer_google" -> "click_all"
      [] src = "el_placer_del_seo" -> "scroll"
      [] OTHER -> "next_link"

\* What the driver can report of one load-more control.
ControlStates == {"active", "covered", "hidden", "stale"}

\* The controls matching SELECTORS['load_more_button'], in document order.
Controls == SeqsUpTo(ControlStates, MaxButtons)

Heights == 1..MaxHeight

\* The page after an activation: it may add a batch of cards or add nothing.
Grown(n) == {n, Min(n + 1, MaxBatches)}

TraversalOver == tpc \in {"returned", "raised"}

\* One call, the page not yet opened.
InitTraverse ==
    /\ source \in DriverSources
    /\ depth = 1
    /\ listing = [c \in 1..NCategories |-> <<>>]
    /\ older = listing
    /\ content = ContentWithout({})
    /\ disk_faulty = FALSE
    /\ store = Absent /\ backup = Absent
    /\ ProcessIdle
    /\ AgentsIdle
    /\ FetchIdle
    /\ tpc = "open" /\ button = <<>> /\ page_len = 0 /\ clicked_any = FALSE
    /\ last_height = 0 /\ new_height = 0
    /\ UnitsIdle

\* self.driver.get(category_url), and for the scroller the first scrollHeight
OpenCategoryPage ==
    /\ tpc = "open"
    /\ \E loaded \in BOOLEAN :
        IF ~loaded
        THEN tpc' = "raised" /\ UNCHANGED last_height
        ELSE IF Traversal(source) = "scroll"
             THEN tpc' = "scroll" /\ last_height' \in Heights
             ELSE tpc' = "poll" /\ UNCHANGED last_height
    /\ UNCHANGED <<env, files, control, memory, history, fetcher, button, page_len,
                   clicked_any, new_height, units, agents>>

\* carlos_sanchez, one iteration of `while True`: find_element, scrollIntoView,
\* click(); a control that intercepts the click is clicked from JavaScript in the
\* handler, which nothing guards.
ClickLoadMore ==
    /\ tpc = "poll"
    /\ Traversal(source) = "click_one"
    /\ \E found \in Controls :
        /\ button' = found
        /\ IF found = <<>>
           THEN tpc' = "returned" /\ UNCHANGED <<page_len, clicked_any>>
           ELSE CASE Head(found) = "active" ->
                       /\ tpc' = "poll" /\ clicked_any' = TRUE
                       /\ page_len' \in Grown(page_len)
                  [] Head(found) = "covered" ->
                       \E js_ok \in BOOLEAN :
                           IF js_ok
                           THEN /\ tpc' = "poll" /\ clicked_any' = TRUE
                                /\ page_len' \in Grown(page_len)
                           ELSE tpc' = "raised" /\ UNCHANGED <<page_len, clicked_any>>
                  [] OTHER ->
                       tpc' = "returned" /\ UNCHANGED <<page_len, clicked_any>>
    /\ UNCHANGED <<env, files, control, memory, history, fetcher, last_height,
                   new_height, units, agents>>

\* The controls of `found` the loop of developer_google reaches before one of
\* them raises: is_displayed() of a stale element raises.
Reached(found) ==
    IF \E i \in 1..Len(found) : found[i] = "stale"
    THEN Prefix(found, (CHOOSE i \in 1..Len(found) :
                            /\ found[i] = "stale"
                            /\ \A j \in 1..(i - 1) : found[j] # "stale") - 1)
    ELSE found

\* developer_google, one iteration of `while True`: find_elements, a JavaScript
\* click on every control that is displayed and enabled, break when none was.
ClickAllLoadMore ==
    /\ tpc = "poll"
    /\ Traversal(source) = "click_all"
    /\ \E found \in Controls :
        LET reached == Reached(found)
            clicks == {i \in 1..Len(reached) : reached[i] \in {"active", "covered"}}
        IN /\ button' = found
           /\ clicked_any' = (clicks # {})
           /\ page_len' \in (IF clicks = {} THEN {page_len} ELSE Grown(page_len))
           /\ tpc' = IF reached # found \/ clicks = {} THEN "returned" ELSE "poll"
    /\ UNCHANGED <<env, files, control, memory, history, fetcher, last_height,
                   new_height, units, agents>>

\* el_placer_del_seo: scrollTo(0, scrollHeight); time.sleep(4); new_height = ...
ScrollMeasure ==
    /\ tpc = "scroll"
    /\ new_height' \in Heights
    /\ tpc' = "compare"
    /\ UNCHANGED <<env, files, control, memory, history, fetcher, button, page_len,
                   clicked_any, last_height, units, agents>>

\* if new_height == last_height: break / last_height = new_height
ScrollCompare ==
    /\ tpc = "compare"
    /\ IF new_height = last_height
       THEN tpc' = "returned" /\ UNCHANGED last_height
       ELSE tpc' = "scroll" /\ last_height' = new_height
    /\ UNCHANGED <<env, files, control, memory, history, fetcher, button, page_len,
                   clicked_any, new_height, units, agents>>

NextTraverse ==
    \/ OpenCategoryPage
    \/ ClickLoadMore
    \/ ClickAllLoadMore
    \/ ScrollMeasure
    \/ ScrollCompare

\* The thread is never suspended: every driver call returns or raises.
SpecTraverse == InitTraverse /\ [][NextTraverse]_vars /\ WF_vars(NextTraverse)

\* C11: a call of the click-to-expand traversal always ends, returning the page
\* or raising, whatever the page shows at each poll.
C11_ExpansionTerminates ==
    <>(Traversal(source) = "scroll" \/ TraversalOver)

\* C12: the scroll loop leaves at the first iteration whose height after the
\* settle delay is not greater than the height before it.
C12_ExitWhenNotHigher ==
    [][(tpc = "compare" /\ new_height <= last_height) => tpc' = "returned"]_vars

\* C13: with no store, a first category of two pages (two articles and a next
\* link, then one article and no next link) and no failed fetch, the initial
\* run creates a store of exactly the three records in discovery order and
\* writes no backup.
TwoPageRun ==
    /\ listing = TwoPageListing /\ older = TwoPageOlder /\ depth = 2
    /\ runs = 1 /\ store0 = Absent /\ RunCompleted /\ clean

C13_TwoPageInitialRun ==
    TwoPageRun =>
        /\ mode = "initial"
        /\ store = Complete(json_dump(<<ArticleData(SEED_URLS[1], 1, "html"),
                                        ArticleData(SEED_URLS[1], 2, "html"),
                                        ArticleData(SEED_URLS[1], NLinks + 1, "html")>>))
        /\ store_writes = 1
        /\ backup = Absent /\ backup_writes = 0

C13_Witness == TwoPageRun /\ Len(StoredArticles) = 3

\* C15: whatever the source and the mode, no record whose full_content is
\* empty is collected or stored.
NoEmptyContent(records) ==
    \A i \in 1..Len(records) : records[i].full_content # ""

C15_NoEmptyContent ==
    /\ NoEmptyContent(all_articles)
    /\ NoEmptyContent(new_articles_found)
    /\ NoEmptyContent(StoredArticles)

\* C16: a failure met while one category is loaded or scanned ends neither the
\* scan of the other categories nor the run.
C16_CategoryFailureIsolated ==
    (pc = "idle" /\ outcome = "aborted") => abort_at \notin {"category", "page", "cards"}

---------------------------------------------------------------------------
(* Update runs on a disk where copying the store can fail                  *)

\* A store of one or two records, a backup that an earlier run left or none,
\* one category publishing, and a disk that may or may not fail a copy.
InitBackup ==
    /\ source \in Sources
    /\ depth = 1
    /\ \E page \in UpdatePages :
          listing = [c \in 1..NCategories |-> IF c = 1 THEN page ELSE <<>>]
    /\ older = listing
    /\ content = ContentWithout({})
    /\ disk_faulty \in BOOLEAN
    /\ \E existing \in StoredLists : store = Complete(json_dump(existing))
    /\ backup \in {Absent, Complete(json_dump(<<>>))}
    /\ ProcessIdle
    /\ AgentsIdle
    /\ FetchIdle
    /\ TraversalIdle /\ UnitsIdle

SpecBackup == InitBackup /\ [][NextUpdate]_vars

UpdateRewroteStore == mode = "update" /\ store_writes > 0

\* C17 as the spec states it: whenever an update run rewrites the store, the
\* backup file holds the store as it was immediately before the run.
C17_AsStated == UpdateRewroteStore => backup = store0

\* C17: an update run copies the store before it rewrites it; from the first
\* write of the store on, the backup holds the store as it was before the run
\* when no copy fails, and otherwise that copy, the backup an earlier run
\* left, or an incomplete file.
C17_BackupBeforeWrite ==
    UpdateRewroteStore =>
        /\ backup \in {store0, backup0, Partial}
        /\ disk_faulty \/ (backup = store0 /\ backup_writes = 1)

C17_Witness ==
    /\ UpdateRewroteStore /\ RunCompleted /\ ~disk_faulty
    /\ store # store0 /\ backup = store0 /\ backup0 # store0

\* C18: a run is an initial run exactly when the store it found was absent or
\* held an empty collection, and an update run exactly when the store held at
\* least one record.
C18_ModeSelection ==
    (runs > 0 /\ store0.kind # "partial") =>
        (mode = "initial" <=> (store0 = Absent \/ json_load(store0.text) = <<>>))

---------------------------------------------------------------------------
(* Helpers of the scrapers, one call on its own                            *)

EXCERPT_CHARS == 70
MaxTail == 3
MaxGap == 2

\* Texts are sequences of characters; "x" stands for any character that is
\* not white space.
Repeat(c, n) == [i \in 1..n |-> c]

Ellipsis == Repeat(".", 3)

\* str.split(): the maximal runs of characters that are not white space
Split(text) ==
    LET n == Len(text)
        starts == {i \in 1..n : text[i] # " " /\ (i = 1 \/ text[i - 1] = " ")}
        EndOf(i) == CHOOSE j \in i..n :
                        /\ \A k \in i..j : text[k] # " "
                        /\ j = n \/ text[j + 1] = " "
        Nth(k) == CHOOSE i \in starts : Cardinality({r \in starts : r < i}) = k - 1
    IN [k \in 1..Cardinality(starts) |-> SubSeq(text, Nth(k), EndOf(Nth(k)))]

\* ' '.join(words)
RECURSIVE Join(_)
Join(words) ==
    IF words = <<>> THEN <<>>
    ELSE IF Len(words) = 1 THEN Head(words)
         ELSE Head(words) \o <<" ">> \o Join(Tail(words))

\* A strip() that removes nothing.
StripNothing(text) == text

\* str.strip(): without its leading and trailing white space
Strip(text) ==
    LET inked == {i \in 1..Len(text) : text[i] # " "}
    IN IF inked = {} THEN <<>>
       ELSE SubSeq(text, CHOOSE i \in inked : \A j \in inked : i <= j,
                         CHOOSE i \in inked : \A j \in inked : i >= j)

\* text[:n]
Slice(text, n) == SubSeq(text, 1, Min(n, Len(text)))

\* _create_excerpt on the text of the content
create_excerpt(text) ==
    LET clean_text == Join(Split(text))
    IN IF Len(clean_text) > EXCERPT_CHARS
       THEN Strip(Slice(clean_text, EXCERPT_CHARS)) \o Ellipsis
       ELSE clean_text

\* The sources that define _create_excerpt.
ExcerptSources == Sources \ {"carlos_sanchez", "developer_google"}

\* Texts of one or two words around a run of blanks, up to MaxTail characters
\* beyond the limit, with or without a leading blank.
RawTexts ==
    {Repeat(" ", lead) \o Repeat("x", a) \o Repeat(" ", gap) \o Repeat("x", b) :
        lead \in 0..1, a \in 0..(EXCERPT_CHARS + MaxTail), gap \in 0..MaxGap,
        b \in 0..MaxTail}

ExcerptCalls == {[fn |-> "create_excerpt", text |-> text] : text \in RawTexts}

CreateExcerpt ==
    /\ call.fn = "create_excerpt" /\ ~ret.done
    /\ ret' = Returned(create_excerpt(call.text))
    /\ UNCHANGED <<env, files, control, memory, history, fetcher, traversal, call, agents>>

\* Date strings are kept by their shape, the date they name, the language of
\* the month name and whether white space surrounds them. The shapes are
\* "B d, Y" (January 5, 2025), "b d, Y" (Jan 5, 2025), "Y-m-d", "Y-m-dT"
\* (a datetime attribute), "d de B de Y", "d-m-Y", "text" and "".
DatedShapes == {"B d, Y", "b d, Y", "Y-m-d", "Y-m-dT", "d de B de Y"}

NamedMonthShapes == {"B d, Y", "b d, Y", "d de B de Y"}

DateString(shape, day, month, year, lang, padded) ==
    [shape |-> shape, day |-> day, month |-> month, year |-> year,
     lang |-> lang, padded |-> padded]

EmptyString == DateString("", 0, 0, 0, "none", FALSE)

FreeText == DateString("text", 0, 0, 0, "none", FALSE)

Days == {1, 31}
Months == {2, 12}
Years == {2025}

DateStrings ==
    {DateString(shape, day, month, year,
                IF shape \in NamedMonthShapes THEN lang ELSE "none", padded) :
        shape \in DatedShapes, day \in Days, month \in Months, year \in Years,
        lang \in {"en", "es"}, padded \in BOOLEAN}
    \cup {EmptyString, FreeText}

DaysIn(month) == IF month = 2 THEN 28 ELSE 31

ValueError == [ok |-> FALSE, day |-> 0, month |-> 0, year |-> 0]

\* The LC_TIME locale a process of the source can run under: developer_google
\* asks for es_ES.UTF-8 and falls back to the default of the system, the
\* others never set it.
Locales(src) == IF src = "developer_google" THEN {"es", "en"} ELSE {"en"}

\* datetime.strptime(date_str, format): the whole string has to match the
\* format, month names are those of the locale, the day has to exist.
strptime(date_str, format, locale) ==
    IF /\ date_str.shape = format
       /\ ~date_str.padded
       /\ date_str.lang \in {locale, "none"}
       /\ date_str.day <= DaysIn(date_str.month)
    THEN [ok |-> TRUE, day |-> date_str.day, month |-> date_str.month,
          year |-> date_str.year]
    ELSE ValueError

\* date_obj.strftime("%d-%m-%Y")
strftime(date_obj) ==
    DateString("d-m-Y", date_obj.day, date_obj.month, date_obj.year, "none", FALSE)

\* date_str.strip()
StripDate(date_str) == [date_str EXCEPT !.padded = FALSE]

\* date_str.split('T')[0]
BeforeT(date_str) ==
    IF date_str.shape = "Y-m-dT" THEN [date_str EXCEPT !.shape = "Y-m-d"] ELSE date_str

\* re.search(r'(\w{3}\s\d{1,2},\s\d{4})', date_str): three word characters, a
\* day and a year, found anywhere in the string; of a full month name the
\* match holds the last three letters.
SearchShortDate(date_str) ==
    CASE date_str.shape = "b d, Y" -> [found |-> TRUE, group |-> StripDate(date_str)]
      [] date_str.shape = "B d, Y" ->
             [found |-> TRUE,
              group |-> [StripDate(date_str) EXCEPT !.shape = "tail d, Y"]]
      [] OTHER -> [found |-> FALSE, group |-> EmptyString]

\* The format each source hands to strptime.
DateFormat(src) ==
    CASE src \in {"ahrefs", "el_placer_del_seo"} -> "B d, Y"
      [] src \in {"backlinko", "carlos_sanchez", "moz"} -> "Y-m-d"
      [] src = "developer_google" -> "d de B de Y"
      [] OTHER -> "b d, Y"

\* What a failed parse returns: search_engine_land returns "", the others
\* the string they were given.
parse_date(src, date_str, locale) ==
    IF src = "search_engine_land"
    THEN LET match == SearchShortDate(date_str)
             date_obj == strptime(match.group, DateFormat(src), locale)
         IN IF match.found /\ date_obj.ok THEN strftime(date_obj) ELSE EmptyString
    ELSE LET date_obj == strptime(IF src = "backlinko" THEN BeforeT(date_str)
                                  ELSE StripDate(date_str), DateFormat(src), locale)
         IN IF date_obj.ok THEN strftime(date_obj) ELSE date_str

DateCalls ==
    {[fn |-> "parse_date", date_str |-> d, locale |-> l] :
        d \in DateStrings, l \in {"en", "es"}}

ParseDate ==
    /\ call.fn = "parse_date" /\ ~ret.done
    /\ ret' = Returned(parse_date(source, call.date_str, call.locale))
    /\ UNCHANGED <<env, files, control, memory, history, fetcher, traversal, call, agents>>

MaxNodes == 2

\* allowed_tags and allowed_attrs of the source
AllowedTags(src) ==
    {"h2", "h3", "h4", "h5", "h6", "p", "figure", "img", "table", "code",
     "blockquote", "a", "ul", "ol", "li"}
    \cup (IF src = "moz" THEN {"iframe"} ELSE {})

AllowedAttrs(src) ==
    {"href", "src", "alt", "title"}
    \cup (CASE src = "moz" -> {"width", "height", "frameborder"}
            [] src = "search_engine_land" ->
                   {"srcset", "data-lazy-src", "data-lazy-srcset", "sizes"}
            [] OTHER -> {})

\* The elements of a content container in document order, each with its tag,
\* the names of its attributes and its nesting depth below the container.
Tags == {"blockquote", "div", "iframe"}

AttrSets == {{}, {"href"}, {"class"}, {"width"}, {"srcset"}}

Elements == [tag : Tags, attrs : AttrSets, depth : 0..(MaxNodes - 1)]

\* An element is a child of the container or lies at most one level below
\* the element before it.
Documents ==
    {doc \in SeqsUpTo(Elements, MaxNodes) :
        /\ doc # <<>> => doc[1].depth = 0
        /\ \A i \in 1..(Len(doc) - 1) : doc[i + 1].depth <= doc[i].depth + 1}

\* The last element of the subtree of element i.
LastOf(doc, i) ==
    CHOOSE j \in i..Len(doc) :
        /\ \A k \in (i + 1)..j : doc[k].depth > doc[i].depth
        /\ j = Len(doc) \/ doc[j + 1].depth <= doc[i].depth

\* str(element): the element and all it contains, as the tree is now
Serialize(doc, i) ==
    [k \in 1..(LastOf(doc, i) - i + 1) |->
        [doc[i + k - 1] EXCEPT !.depth = @ - doc[i].depth]]

\* for attr in attrs: if attr not in allowed_attrs: del element.attrs[attr]
StripAttrs(src, doc, i) == [doc EXCEPT ![i].attrs = @ \cap AllowedAttrs(src)]

\* for element in content_soup.find_all(True): an element with an allowed tag
\* loses its other attributes and is appended as str(element)
RECURSIVE CleanFrom(_, _, _, _)
CleanFrom(src, doc, i, content_parts) ==
    IF i > Len(doc) THEN content_parts
    ELSE IF doc[i].tag \in AllowedTags(src)
         THEN LET stripped == StripAttrs(src, doc, i)
              IN CleanFrom(src, stripped, i + 1,
                           Append(content_parts, Serialize(stripped, i)))
         ELSE CleanFrom(src, doc, i + 1, content_parts)

\* _clean_html_content, after the unwanted blocks of the source were removed
clean_html_content(src, doc) == CleanFrom(src, doc, 1, <<>>)

CleanCalls == {[fn |-> "clean_html_content", doc |-> doc] : doc \in Documents}

CleanHtmlContent ==
    /\ call.fn = "clean_html_content" /\ ~ret.done
    /\ ret' = Returned(clean_html_content(source, call.doc))
    /\ UNCHANGED <<env, files, control, memory, history, fetcher, traversal, call, agents>>

\* The excerpt tag of a listing card, read with get_text(strip=True): absent,
\* or a text within or beyond the limit of an excerpt.
NoExcerptTag == [present |-> FALSE, text |-> <<>>]

ExcerptTag(text) == [present |-> TRUE, text |-> text]

\* The sources whose cards are searched for an excerpt tag.
ExcerptTagSources == {"carlos_sanchez", "developer_google", "moz", "search_engine_land"}

ExcerptTags(src) ==
    IF src \in ExcerptTagSources
    THEN {NoExcerptTag, ExcerptTag(Repeat("x", MaxTail)),
          ExcerptTag(Repeat("x", EXCERPT_CHARS + MaxTail))}
    ELSE {NoExcerptTag}

\* The text of the sanitized content of an article, never empty.
ContentTexts == {Repeat("y", MaxTail), Repeat("y", EXCERPT_CHARS + MaxTail)}

\* The record of a card was appended with this excerpt.
Appended(excerpt) == [stored |-> TRUE, excerpt |-> excerpt]

\* Building the record raised, the handler of the card logged it and the loop
\* went on to the next card.
CardSkipped == [stored |-> FALSE, excerpt |-> <<>>]

\* The "excerpt_content" entry of article_data, source by source.
excerpt_content(src, excerpt_tag, full_content) ==
    CASE src \in {"ahrefs", "backlinko", "el_placer_del_seo"} ->
             Appended(create_excerpt(full_content))
      [] src \in {"moz", "search_engine_land"} ->
             Appended(create_excerpt(IF excerpt_tag.present THEN excerpt_tag.text
                                     ELSE <<>>))
      [] src = "carlos_sanchez" ->
             Appended(IF excerpt_tag.present THEN excerpt_tag.text ELSE <<>>)
      [] src = "developer_google" ->
             IF excerpt_tag.present
             THEN Appended(excerpt_tag.text)
             ELSE IF src \in ExcerptSources
                  THEN Appended(create_excerpt(full_content))
                  ELSE CardSkipped

RecordCalls(src) ==
    {[fn |-> "excerpt_content", excerpt_tag |-> tag, full_content |-> text] :
        tag \in ExcerptTags(src), text \in ContentTexts}

BuildRecord ==
    /\ call.fn = "excerpt_content" /\ ~ret.done
    /\ ret' = Returned(excerpt_content(source, call.excerpt_tag, call.full_content))
    /\ UNCHANGED <<env, files, control, memory, history, fetcher, traversal, call, agents>>

InitUnits ==
    /\ depth = 1
    /\ listing = [c \in 1..NCategories |-> <<>>]
    /\ older = listing
    /\ content = ContentWithout({})
    /\ disk_faulty = FALSE
    /\ store = Absent /\ backup = Absent
    /\ ProcessIdle
    /\ AgentsIdle
    /\ FetchIdle
    /\ TraversalIdle
    /\ \/ source \in ExcerptSources /\ call \in ExcerptCalls
       \/ /\ source \in Sources
          /\ call \in {c \in DateCalls : c.locale \in Locales(source)}
       \/ source \in Sources /\ call \in CleanCalls
       \/ source \in Sources /\ call \in RecordCalls(source)
    /\ ret = Pending

NextUnits ==
    \/ CreateExcerpt
    \/ ParseDate
    \/ CleanHtmlContent
    \/ BuildRecord

SpecUnits == InitUnits /\ [][NextUnits]_vars

\* The input of the call with its white space collapsed.
Collapsed == Join(Split(call.text))

ExcerptReturned == call.fn = "create_excerpt" /\ ret.done

\* C19 as the spec states it: the excerpt of a collapsed text t is t when t has
\* at most 70 characters, else exactly the first 70 characters of t and "...".
C19_AsStated ==
    ExcerptReturned =>
        ret.value = IF Len(Collapsed) <= EXCERPT_CHARS THEN Collapsed
                    ELSE SubSeq(Collapsed, 1, EXCERPT_CHARS) \o Ellipsis

\* C19: the excerpt of a collapsed text t is t when t has at most 70
\* characters; else it is "..." after the first 70 characters of t, or after
\* the first 69 when the 70th is a blank.
C19_Excerpt ==
    ExcerptReturned =>
        LET t == Collapsed
        IN /\ t # <<>> => (t[1] # " " /\ t[Len(t)] # " ")
           /\ \A i \in 1..(Len(t) - 1) : ~(t[i] = " " /\ t[i + 1] = " ")
           /\ Len(t) <= EXCERPT_CHARS => ret.value = t
           /\ (Len(t) > EXCERPT_CHARS /\ t[EXCERPT_CHARS] # " ") =>
                  ret.value = SubSeq(t, 1, EXCERPT_CHARS) \o Ellipsis
           /\ (Len(t) > EXCERPT_CHARS /\ t[EXCERPT_CHARS] = " ") =>
                  ret.value = SubSeq(t, 1, EXCERPT_CHARS - 1) \o Ellipsis

C19_Witness ==
    /\ ExcerptReturned
    /\ Len(Collapsed) > EXCERPT_CHARS /\ Collapsed[EXCERPT_CHARS] = " "
    /\ Len(ret.value) = EXCERPT_CHARS + 2

DateReturned == call.fn = "parse_date" /\ ret.done

\* C20: for every source, the stored date is the DD-MM-YYYY form of the date
\* the source string names, or else the source string itself, unaltered.
C20_DateFallback ==
    DateReturned =>
        \/ ret.value = call.date_str
        \/ /\ call.date_str.shape \in DatedShapes
           /\ ret.value = strftime(call.date_str)

CleanReturned == call.fn = "clean_html_content" /\ ret.done

\* The elements of the input whose tag is allowed.
KeptElements == {i \in 1..Len(call.doc) : call.doc[i].tag \in AllowedTags(source)}

\* C14: at no depth does the output of the normalizer hold an element whose
\* tag is not allowed or an attribute that is not allowed, and the allowed
\* elements come out once each, in document order.
C14_AllowList ==
    CleanReturned =>
        /\ \A p \in 1..Len(ret.value) : \A k \in 1..Len(ret.value[p]) :
              /\ ret.value[p][k].tag \in AllowedTags(source)
              /\ ret.value[p][k].attrs \subseteq AllowedAttrs(source)
        /\ Len(ret.value) = Cardinality(KeptElements)
        /\ \A p \in 1..Len(ret.value) :
              \E i \in KeptElements :
                  /\ Cardinality({j \in KeptElements : j < i}) = p - 1
                  /\ ret.value[p][1].tag = call.doc[i].tag

\* C25: a copy of the store that fails ends no update run, and a run whose copy
\* failed still writes the batch it collected, merged, to the store.
CopyFailed == mode = "update" /\ pc \notin {"backup"} /\ runs > 0 /\ backup # store0

C25_BackupBestEffort ==
    /\ (pc = "idle" /\ outcome = "aborted") => abort_at # "backup"
    /\ (RunCompleted /\ CopyFailed /\ new_articles_found # <<>>) =>
          /\ store = Complete(json_dump(new_articles_found \o PreRun))
          /\ store_writes = 1

C25_Witness ==
    /\ RunCompleted /\ CopyFailed /\ new_articles_found # <<>>
    /\ backup = Partial /\ store # store0

---------------------------------------------------------------------------
(* Update runs that can be killed, over a store that was completely written *)

NextCrash ==
    \/ NextUpdate
    \/ Kill

\* The disk never fails a copy.
InitCrash == InitBackup /\ ~disk_faulty

SpecCrash == InitCrash /\ [][NextCrash]_vars

Loadable(file) == file.kind = "complete"

\* C29: once the store was completely written, after any runs and crashes the
\* store or the backup holds a complete collection.
C29_Recoverable == Loadable(store) \/ Loadable(backup)

\* C22: when the click on the load-more control is intercepted and the direct
\* activation fails too, the traversal returns the page; it does not raise.
InterceptedLast == button # <<>> /\ Head(button) = "covered"

C22_InterceptTolerated ==
    (Traversal(source) = "click_one" /\ InterceptedLast) => tpc # "raised"

\* C23: within one initial run no article link is fetched more than once.
C23_NoRefetch ==
    mode = "initial" =>
        \A i, j \in 1..Len(fetched) : i # j => fetched[i].link # fetched[j].link

\* C27: an update run fetches only among the first 5 entries of a category's
\* page (the first 10 for carlos_sanchez and el_placer_del_seo), so it collects
\* at most that many records per category, and none from beyond the prefix.
Inspected ==
    IF source \in {"carlos_sanchez", "el_placer_del_seo"}
    THEN UPDATE_CARDS_SELENIUM ELSE UPDATE_CARDS

C27_PrefixOnly ==
    mode = "update" =>
        /\ \A i \in 1..Len(fetched) : fetched[i].pos <= Inspected
        /\ \A c \in 1..NCategories :
              Len(SelectSeq(fetched, LAMBDA f : f.cat = c)) <= Inspected
        /\ pc \in {"cards", "scanned"} => Len(Collected) <= Inspected

C27_Witness ==
    /\ ScanOver
    /\ Len(cards) > Inspected
    /\ Len(Collected) = Inspected
    /\ cards[Inspected + 1] \notin LinksOf(new_articles_found) \cup LinksOf(PreRun)

\* C28: in an update run the known links are those of the store and those
\* collected so far in the run, so a link collected once is never fetched
\* again and no later category is scanned past it, while a link whose fetch
\* gave no record stays unknown; a scan that stops early stops at a known link.
Scanning == mode = "update" /\ pc \in {"category", "cards", "scanned"}

C28_KnownLinksGrow ==
    /\ Scanning => existing_urls = LinksOf(PreRun) \cup LinksOf(new_articles_found)
    /\ mode = "update" =>
          \A i, j \in 1..Len(fetched) :
              (i < j /\ Kept(source, fetched[i].result)) =>
                  /\ fetched[j].link # fetched[i].link
                  /\ fetched[j].cat > fetched[i].cat =>
                        \A q \in 1..(fetched[j].pos - 1) :
                            Served(fetched[j].cat, 1)[q] # fetched[i].link
    /\ (ScanOver /\ pos <= Len(Prefix(cards, UpdatePrefix(source)))) =>
          cards[pos] \in existing_urls

\* The scan of the second category stopped at a link collected under the first.
C28_Witness ==
    /\ ScanOver /\ cat = 2 /\ pos <= Len(cards)
    /\ cards[pos] \notin LinksOf(PreRun)
    /\ \E i \in 1..Len(new_articles_found) :
          /\ new_articles_found[i].link = cards[pos]
          /\ new_articles_found[i].category = SEED_URLS[1]
    /\ \E i \in 1..Len(fetched) : fetched[i].result = "none"

---------------------------------------------------------------------------
(* run_all.py                                                              *)

SCRAPERS ==
    <<"ahrefs", "backlinko", "carlos_sanchez", "developer_google",
      "el_placer_del_seo", "moz", "search_engine_land">>

\* How starting the child can end: it runs, the interpreter is not found, or
\* the system refuses for another reason (PermissionError, no memory).
PopenOutcomes == {"started", "FileNotFoundError", "OSError"}

\* How the finished child is seen by subprocess.run(check=True, text=True):
\* exit status 0, CalledProcessError on any other status (a script that does
\* not exist makes the interpreter exit with 2), or output that cannot be
\* decoded as text.
ChildOutcomes == {"exit_0", "CalledProcessError", "UnicodeDecodeError"}

\* except subprocess.CalledProcessError / except FileNotFoundError
Handled(ended) == ended \in {"exit_0", "CalledProcessError", "FileNotFoundError"}

InitRunAll ==
    /\ source \in Sources
    /\ depth = 1
    /\ listing = [c \in 1..NCategories |-> <<>>]
    /\ older = listing
    /\ content = ContentWithout({})
    /\ disk_faulty = FALSE
    /\ store = Absent /\ backup = Absent
    /\ ProcessIdle
    /\ FetchIdle
    /\ TraversalIdle /\ UnitsIdle
    /\ launch = [state |-> "looping", next |-> 1, child |-> "none", log |-> <<>>]
    /\ procs = <<>>

Logged(ended) == Append(launch.log, [script |-> SCRAPERS[launch.next],
                                       outcome |-> ended])

\* An ended the loop handles moves on to the next script; any other
\* exception leaves run_scrapers.
AfterChild(ended) ==
    IF Handled(ended)
    THEN [state |-> "looping", next |-> launch.next + 1, child |-> "none",
          log |-> Logged(ended)]
    ELSE [state |-> "raised", next |-> launch.next, child |-> "none",
          log |-> Logged(ended)]

\* for scraper_path in SCRAPERS: subprocess.run([sys.executable, scraper_path], ...)
LaunchScraper ==
    /\ launch.state = "looping" /\ launch.child = "none"
    /\ launch.next <= Len(SCRAPERS)
    /\ \E ended \in PopenOutcomes :
        launch' = IF ended = "started"
                  THEN [launch EXCEPT !.child = SCRAPERS[launch.next]]
                  ELSE AfterChild(ended)
    /\ UNCHANGED <<env, files, control, memory, history, fetcher, traversal, units,
                   procs>>

\* subprocess.run waits for the child, then returns or raises
ScraperExits ==
    /\ launch.state = "looping" /\ launch.child # "none"
    /\ \E ended \in ChildOutcomes : launch' = AfterChild(ended)
    /\ UNCHANGED <<env, files, control, memory, history, fetcher, traversal, units,
                   procs>>

\* the loop is over
RunAllEnds ==
    /\ launch.state = "looping" /\ launch.child = "none"
    /\ launch.next > Len(SCRAPERS)
    /\ launch' = [launch EXCEPT !.state = "finished"]
    /\ UNCHANGED <<env, files, control, memory, history, fetcher, traversal, units,
                   procs>>

NextRunAll ==
    \/ LaunchScraper
    \/ ScraperExits
    \/ RunAllEnds

SpecRunAll == InitRunAll /\ [][NextRunAll]_vars

\* C24: whatever happens to each scraper, run_all ends having launched every
\* script of SCRAPERS once, in list order.
C24_AllLaunched ==
    launch.state \in {"finished", "raised"} =>
        [i \in 1..Len(launch.log) |-> launch.log[i].script] = SCRAPERS

---------------------------------------------------------------------------
(* Two processes of one source started over the same store                 *)

NProcs == 2

Procs == 1..NProcs

ProcIdle ==
    [pc |-> "idle", cat |-> 0, pos |-> 0, existing_data |-> <<>>,
     existing_urls |-> {}, new_articles_found |-> <<>>, final_data |-> <<>>]

\* The first category published two articles since the store was written.
OverlapListing ==
    [c \in 1..NCategories |-> IF c = 1 THEN <<NLinks + 1, NLinks + 2, 2>> ELSE <<1>>]

InitOverlap ==
    /\ source = "search_engine_land"
    /\ depth = 1
    /\ listing = OverlapListing
    /\ older = listing
    /\ content = ContentWithout({})
    /\ disk_faulty = FALSE
    /\ store = Complete(json_dump(<<ArticleData(SEED_URLS[1], 2, "html"),
                                     ArticleData(SEED_URLS[2], 1, "html")>>))
    /\ backup = Absent
    /\ ProcessIdle
    /\ FetchIdle
    /\ TraversalIdle /\ UnitsIdle
    /\ launch = [state |-> "idle", next |-> 0, child |-> "none", log |-> <<>>]
    /\ procs = [p \in Procs |-> ProcIdle]

OnlyProcs == UNCHANGED <<env, control, memory, history, fetcher, traversal, units, launch>>

\* main(): the store exists, so the process runs an update; nothing tells it
\* that another process of the source is running.
ProcMain(p) ==
    /\ procs[p].pc = "idle"
    /\ procs' = [procs EXCEPT ![p].pc = IF Exists(store) THEN "backup" ELSE "initial"]
    /\ UNCHANGED files
    /\ OnlyProcs

\* self._backup_database()
ProcBackup(p) ==
    /\ procs[p].pc = "backup"
    /\ backup' = store
    /\ procs' = [procs EXCEPT ![p].pc = "load"]
    /\ UNCHANGED store
    /\ OnlyProcs

\* existing_data = self._load_existing_data(); existing_urls = {...}
ProcLoad(p) ==
    /\ procs[p].pc = "load"
    /\ procs' = IF store.kind = "complete"
                THEN [procs EXCEPT ![p].pc = "category", ![p].cat = 1,
                                   ![p].existing_data = json_load(store.text),
                                   ![p].existing_urls = LinksOf(json_load(store.text))]
                ELSE [procs EXCEPT ![p].pc = "aborted"]
    /\ UNCHANGED files
    /\ OnlyProcs

\* for category, url in SEED_URLS.items(): fetch the page, or merge and save
ProcCategory(p) ==
    /\ procs[p].pc = "category"
    /\ IF procs[p].cat <= NCategories
       THEN \E response \in FetchResponses :
              procs' = IF response = "none" \/ Served(procs[p].cat, 1) = <<>>
                       THEN [procs EXCEPT ![p].cat = @ + 1]
                       ELSE [procs EXCEPT ![p].pc = "cards", ![p].pos = 1]
       ELSE procs' = IF procs[p].new_articles_found # <<>>
                     THEN [procs EXCEPT ![p].pc = "save_open",
                                        ![p].final_data = procs[p].new_articles_found
                                                          \o procs[p].existing_data]
                     ELSE [procs EXCEPT ![p].pc = "done"]
    /\ UNCHANGED files
    /\ OnlyProcs

\* for card in article_cards[:5]
ProcCard(p) ==
    /\ procs[p].pc = "cards"
    /\ LET page == Prefix(Served(procs[p].cat, 1), UpdatePrefix(source))
           at == procs[p].pos
       IN IF at > Len(page) \/ page[at] \in procs[p].existing_urls
          THEN procs' = [procs EXCEPT ![p].pc = "category", ![p].cat = @ + 1]
          ELSE \E result \in ArticleResults(page[at]) :
                 procs' = IF Kept(source, result)
                          THEN [procs EXCEPT
                                  ![p].pos = @ + 1,
                                  ![p].new_articles_found =
                                      Append(@, ArticleData(SEED_URLS[procs[p].cat],
                                                            page[at], result)),
                                  ![p].existing_urls = @ \cup {page[at]}]
                          ELSE [procs EXCEPT ![p].pos = @ + 1]
    /\ UNCHANGED files
    /\ OnlyProcs

\* _save_data: open(JSON_FILE_PATH, 'w')
ProcSaveOpen(p) ==
    /\ procs[p].pc = "save_open"
    /\ store' = Partial
    /\ procs' = [procs EXCEPT ![p].pc = "save_dump"]
    /\ UNCHANGED backup
    /\ OnlyProcs

\* _save_data: json.dump(data, f), close
ProcSaveDump(p) ==
    /\ procs[p].pc = "save_dump"
    /\ store' = Complete(json_dump(procs[p].final_data))
    /\ procs' = [procs EXCEPT ![p].pc = "done"]
    /\ UNCHANGED backup
    /\ OnlyProcs

NextOverlap ==
    \E p \in Procs :
        \/ ProcMain(p)
        \/ ProcBackup(p)
        \/ ProcLoad(p)
        \/ ProcCategory(p)
        \/ ProcCard(p)
        \/ ProcSaveOpen(p)
        \/ ProcSaveDump(p)

SpecOverlap == InitOverlap /\ [][NextOverlap]_vars

ProcOver(p) == procs[p].pc \in {"done", "aborted"}

\* C30: when two runs of a source overlap, every record that one of them saved
\* is in the store once both are over, and no link is stored twice.
C30_NoLostRecord ==
    (\A p \in Procs : ProcOver(p)) =>
        /\ \A p \in Procs :
              procs[p].pc = "done" =>
                  LinksOf(procs[p].new_articles_found) \subseteq LinksOf(StoredArticles)
        /\ \A i, j \in 1..Len(StoredArticles) :
              i # j => StoredArticles[i].link # StoredArticles[j].link

\* C26: an entry that was new and ahead of the first known entry of its
\* category when an update run skipped it is in the store after the next
\* update run over the same listing, when no fetch of that run fails and the
\* article has content.
BeforeLastRun == SubSeq(PreRun, prev.found + 1, Len(PreRun))

SecondCleanUpdate ==
    /\ RunCompleted /\ mode = "update" /\ clean
    /\ prev.mode = "update" /\ prev.outcome = "completed"

C26_EventuallyCollected ==
    SecondCleanUpdate =>
        \A c \in 1..NCategories :
            \A i \in 1..Min(Leading(listing[c], LinksOf(BeforeLastRun)),
                             UpdatePrefix(source)) :
                content[listing[c][i]] # "" =>
                    listing[c][i] \in LinksOf(StoredArticles)

\* C21: the excerpt of a record is the excerpt of its listing card when the
\* card has one, and is otherwise derived from the sanitized content (its
\* first 70 characters and an ellipsis when it is longer); a card without an
\* excerpt still yields a stored record with a derived excerpt.
C21_ExcerptPreference ==
    (call.fn = "excerpt_content" /\ ret.done) =>
        /\ ret.value.stored
        /\ ret.value.excerpt =
               IF call.excerpt_tag.present
               THEN call.excerpt_tag.text
               ELSE create_excerpt(call.full_content)

====
